---- MODULE Spec2Model ----
(***************************************************************************)
(* Per-frame window-surface lifecycle of bevy_render: extract_windows,     *)
(* need_surface_configuration / create_surfaces, prepare_windows           *)
(* (crates/bevy_render/src/view/window/mod.rs) and the camera dispatch     *)
(* pass CameraDriverNode::run (render_graph/camera_driver_node.rs).        *)
(*                                                                         *)
(* One action per system; the render schedule runs them in the order       *)
(* extract -> [create_surfaces if need_surface_configuration] ->           *)
(* prepare_windows -> CameraDriverNode::run, once per frame.               *)
(***************************************************************************)
EXTENDS Integers, Sequences, FiniteSets, TLC

\* ---------------------------------------------------------------- bounds
MaxCameras == 2
MaxWidth == 2
MaxHeight == 2
MaxFormats == 2

\* Window entities and camera entities of the model.
WindowEntities == {1, 2}
CameraEntities == 1..MaxCameras

\* ---------------------------------------------------------------- values
\* Option<T>: None is the empty set, Some(x) the singleton.
None == {}
Some(x) == {x}
IsSome(o) == o # {}
Unwrap(o) == CHOOSE x \in o : TRUE

Max(a, b) == IF a >= b THEN a ELSE b

\* bevy_window::PresentMode
PresentModes == {"Fifo", "FifoRelaxed", "Mailbox", "Immediate", "AutoVsync", "AutoNoVsync"}
\* bevy_window::CompositeAlphaMode
CompositeAlphaModes == {"Auto", "Opaque", "PreMultiplied", "PostMultiplied", "Inherit"}

\* The match of create_surfaces from bevy's PresentMode to wgpu::PresentMode.
WgpuPresentMode(present_mode) ==
    CASE present_mode = "Fifo" -> "wgpu::PresentMode::Fifo"
      [] present_mode = "FifoRelaxed" -> "wgpu::PresentMode::FifoRelaxed"
      [] present_mode = "Mailbox" -> "wgpu::PresentMode::Mailbox"
      [] present_mode = "Immediate" -> "wgpu::PresentMode::Immediate"
      [] present_mode = "AutoVsync" -> "wgpu::PresentMode::AutoVsync"
      [] present_mode = "AutoNoVsync" -> "wgpu::PresentMode::AutoNoVsync"

\* The match of create_surfaces from bevy's CompositeAlphaMode to wgpu's.
WgpuCompositeAlphaMode(alpha_mode) ==
    CASE alpha_mode = "Auto" -> "wgpu::CompositeAlphaMode::Auto"
      [] alpha_mode = "Opaque" -> "wgpu::CompositeAlphaMode::Opaque"
      [] alpha_mode = "PreMultiplied" -> "wgpu::CompositeAlphaMode::PreMultiplied"
      [] alpha_mode = "PostMultiplied" -> "wgpu::CompositeAlphaMode::PostMultiplied"
      [] alpha_mode = "Inherit" -> "wgpu::CompositeAlphaMode::Inherit"

DEFAULT_DESIRED_MAXIMUM_FRAME_LATENCY == 2

\* wgpu::TextureFormat, the part the surface code distinguishes.
IsSrgb(format) == format \in {"Rgba8UnormSrgb", "Bgra8UnormSrgb"}
AddSrgbSuffix(format) ==
    CASE format = "Rgba8Unorm" -> "Rgba8UnormSrgb"
      [] format = "Bgra8Unorm" -> "Bgra8UnormSrgb"
      [] OTHER -> format

\* Restriction of a map (a function on a set of entities) to the keys in S.
Restrict(map, S) == [k \in DOMAIN map \cap S |-> map[k]]

\* All orders in which a hash map over the keys S can be iterated.
Orders(S) ==
    {o \in [1..Cardinality(S) -> S] : \A i, j \in 1..Cardinality(S) : i # j => o[i] # o[j]}

\* ----------------------------------------------------------------- state
VARIABLES
    pc,                 \* the system the schedule runs next, or "panicked"
    target_os,          \* cfg(target_os) of the build
    adapters,           \* the names of the adapters enumerate_adapters(VULKAN) reports
    windows,            \* the Query<(Entity, &Window, &RawHandleWrapper, Option<&PrimaryWindow>)>
                        \* extract_windows read this frame; dropped when the frame's last system has run
    closing,            \* this frame's WindowClosing events (their windows)
    removed,            \* this frame's RemovedComponents<RawHandleWrapper>
    extracted_windows,  \* Resource ExtractedWindows: [primary, windows]
    window_surfaces,    \* Resource WindowSurfaces: [surfaces, configured_windows]
    surfaces_removed,   \* the windows whose SurfaceData this frame's extract_windows removed
    create_ran,         \* whether create_surfaces ran this frame
    surface_calls,      \* per window, the calls create_surfaces and prepare_windows made on
                        \* its surface this frame, in order; dropped with windows
    adapter_capabilities, \* per window whose surface create_surfaces set out to create this
                        \* frame, what the GPU answered; dropped with windows
    acquired,           \* the windows for which a get_current_texture of this frame returned Ok
    sorted_cameras,     \* this frame's SortedCameras, with the ExtractedCamera of each
    sub_graph_runs,     \* this frame's graph.run_sub_graph calls, in order
    clear_passes,       \* per window, this frame's no_camera_clear_pass count
    camera_windows,     \* the local camera_windows of CameraDriverNode::run, at its end
    run_result          \* what CameraDriverNode::run returned: "Ok", "Err", or "none" before it ran

vars == <<pc, target_os, adapters, windows, closing, removed, extracted_windows, window_surfaces,
          surfaces_removed, create_ran, surface_calls, adapter_capabilities, acquired,
          sorted_cameras, sub_graph_runs, clear_passes, camera_windows, run_result>>

NoCalls == [w \in WindowEntities |-> <<>>]
NoClears == [w \in WindowEntities |-> 0]

\* ------------------------------------------------------- extract_windows
\* ExtractedWindow as or_insert builds it on the first sighting of a window.
NewExtractedWindow(entity, window, new_width, new_height) ==
    [entity |-> entity,
     handle |-> window.handle,
     physical_width |-> new_width,
     physical_height |-> new_height,
     present_mode |-> window.present_mode,
     desired_maximum_frame_latency |-> window.desired_maximum_frame_latency,
     swap_chain_texture |-> None,
     swap_chain_texture_view |-> None,
     size_changed |-> FALSE,
     swap_chain_texture_format |-> None,
     present_mode_changed |-> FALSE,
     alpha_mode |-> window.composite_alpha_mode]

\* Mutant: only a change of the width counts as a change of the size.
SizeChangedWidthOnly(new_width, new_height, extracted_window) ==
    new_width # extracted_window.physical_width

\* size_changed as extract_windows computes it.
SizeChanged(new_width, new_height, extracted_window) ==
    \/ new_width # extracted_window.physical_width
    \/ new_height # extracted_window.physical_height

\* present_mode_changed as extract_windows computes it.
PresentModeChanged(window, extracted_window) ==
    window.present_mode # extracted_window.present_mode

\* Mutant: the flags are computed but the stored values are not overwritten.
ExtractWindowFlagsOnly(ews, entity, window) ==
    LET new_width == Max(window.physical_width, 1)
        new_height == Max(window.physical_height, 1)
        entry == IF entity \in DOMAIN ews
                 THEN ews[entity]
                 ELSE NewExtractedWindow(entity, window, new_width, new_height)
    IN  [entry EXCEPT
            !.swap_chain_texture_view = None,
            !.size_changed = SizeChanged(new_width, new_height, entry),
            !.present_mode_changed = PresentModeChanged(window, entry)]

\* The body of the loop over the queried windows, for one window.
ExtractWindow(ews, entity, window) ==
    LET new_width == Max(window.physical_width, 1)
        new_height == Max(window.physical_height, 1)
        entry == IF entity \in DOMAIN ews
                 THEN ews[entity]
                 ELSE NewExtractedWindow(entity, window, new_width, new_height)
        size_changed == SizeChanged(new_width, new_height, entry)
        present_mode_changed == PresentModeChanged(window, entry)
    IN  [entry EXCEPT
            !.swap_chain_texture_view = None,
            !.size_changed = size_changed,
            !.present_mode_changed = present_mode_changed,
            !.physical_width = IF size_changed THEN new_width ELSE @,
            !.physical_height = IF size_changed THEN new_height ELSE @,
            !.present_mode = IF present_mode_changed THEN window.present_mode ELSE @]

\* Mutant: remove forgets the surface and only clears the configured mark.
WindowSurfacesRemoveKeepsSurface(ws, window) ==
    [surfaces |-> ws.surfaces,
     configured_windows |-> ws.configured_windows \ {window}]

\* WindowSurfaces::remove
WindowSurfacesRemove(ws, window) ==
    [surfaces |-> Restrict(ws.surfaces, DOMAIN ws.surfaces \ {window}),
     configured_windows |-> ws.configured_windows \ {window}]

\* extracted_windows.remove(w); window_surfaces.remove(w) for each event of a reader.
RECURSIVE RemoveEvents(_, _)
RemoveEvents(res, events) ==
    IF events = {} THEN res
    ELSE LET w == CHOOSE x \in events : TRUE
         IN  RemoveEvents(
                [ews |-> Restrict(res.ews, DOMAIN res.ews \ {w}),
                 ws |-> WindowSurfacesRemove(res.ws, w)],
                events \ {w})

\* Mutant: the events are handled before the loop over the queried windows.
ExtractAndRemoveEventsFirst(ews, ws, query, closing_events, removed_events) ==
    LET after == RemoveEvents(RemoveEvents([ews |-> ews, ws |-> ws], closing_events),
                              removed_events)
    IN  [ews |-> [e \in DOMAIN after.ews \cup DOMAIN query |->
                    IF e \in DOMAIN query THEN ExtractWindow(after.ews, e, query[e])
                    ELSE after.ews[e]],
         ws |-> after.ws]

\* The two resources after extract_windows: the loop over the queried windows,
\* then the closing events, then the removed handles.
ExtractAndRemove(ews, ws, query, closing_events, removed_events) ==
    LET looped == [e \in DOMAIN ews \cup DOMAIN query |->
                      IF e \in DOMAIN query THEN ExtractWindow(ews, e, query[e]) ELSE ews[e]]
        after_closing == RemoveEvents([ews |-> looped, ws |-> ws], closing_events)
    IN  RemoveEvents(after_closing, removed_events)

\* A queried window: its Window component, RawHandleWrapper and PrimaryWindow marker.
\* sizes are the physical <<width, height>> pairs of the resolution.
QueriedWindows(sizes, present_modes, latencies, alpha_modes, primaries) ==
    {[physical_width |-> size[1],
      physical_height |-> size[2],
      present_mode |-> present_mode,
      desired_maximum_frame_latency |-> latency,
      composite_alpha_mode |-> alpha_mode,
      handle |-> "RawHandleWrapper",
      primary |-> primary] :
        size \in sizes, present_mode \in present_modes, latency \in latencies,
        alpha_mode \in alpha_modes, primary \in primaries}

\* The query results: any set of open windows among entities, each one of queried.
WindowQueries(entities, queried) == UNION {[open -> queried] : open \in SUBSET entities}

\* The events of a frame, <<closing, removed>>: any windows, none in both.
WindowEvents(entities) ==
    {<<c, r>> : c \in SUBSET entities, r \in SUBSET entities} \ 
        {<<c, r>> \in (SUBSET entities) \X (SUBSET entities) : c \cap r # {}}

ExtractWindows(queries, events) ==
    /\ pc = "extract"
    /\ \E query \in queries, event \in events :
         LET closing_events == event[1]
             removed_events == event[2]
             primaries == {e \in DOMAIN query : query[e].primary}
             res == ExtractAndRemove(extracted_windows.windows, window_surfaces,
                                     query, closing_events, removed_events)
         IN  /\ windows' = query
             /\ closing' = closing_events
             /\ removed' = removed_events
             /\ \E primary \in (IF primaries = {}
                                THEN {extracted_windows.primary}
                                ELSE {Some(e) : e \in primaries}) :
                    extracted_windows' = [primary |-> primary, windows |-> res.ews]
             /\ window_surfaces' = res.ws
             /\ surfaces_removed' = DOMAIN window_surfaces.surfaces \ DOMAIN res.ws.surfaces
    /\ pc' = "configure"
    /\ create_ran' = FALSE
    /\ surface_calls' = NoCalls
    /\ adapter_capabilities' = << >>
    /\ acquired' = {}
    /\ sorted_cameras' = <<>>
    /\ sub_graph_runs' = <<>>
    /\ clear_passes' = NoClears
    /\ camera_windows' = {}
    /\ run_result' = "none"
    /\ UNCHANGED <<target_os, adapters>>

\* -------------------------------------------- need_surface_configuration
\* Mutant: a window that was never configured does not ask for configuration.
NeedSurfaceConfigurationFlagsOnly(ews, ws) ==
    \E e \in DOMAIN ews :
        \/ ews[e].size_changed
        \/ ews[e].present_mode_changed

\* Mutant: a changed present mode does not ask for configuration.
NeedSurfaceConfigurationIgnoresPresentMode(ews, ws) ==
    \E e \in DOMAIN ews :
        \/ ews[e].entity \notin ws.configured_windows
        \/ ews[e].size_changed

NeedSurfaceConfiguration(ews, ws) ==
    \E e \in DOMAIN ews :
        \/ ews[e].entity \notin ws.configured_windows
        \/ ews[e].size_changed
        \/ ews[e].present_mode_changed

\* ------------------------------------------------------- create_surfaces
\* A call on a window's surface, as logged in surface_calls.
Call(op, configuration, result) == [op |-> op, configuration |-> configuration, result |-> result]

\* The format loop of create_surfaces: the first sRGB format of the list if
\* there is one, else the first format. The list is not empty.
RECURSIVE FormatLoop(_, _, _)
FormatLoop(formats, i, format) ==
    IF i > Len(formats) THEN format
    ELSE IF formats[i] = "Rgba8UnormSrgb" \/ formats[i] = "Bgra8UnormSrgb" THEN formats[i]
    ELSE FormatLoop(formats, i + 1, format)

\* Mutant: the first format is taken whether or not a later one is sRGB.
ChooseFormatFirst(formats) == formats[1]

ChooseFormat(formats) == FormatLoop(formats, 1, formats[1])

\* The SurfaceConfiguration create_surfaces builds for a new surface.
NewSurfaceConfiguration(window, format) ==
    [format |-> format,
     width |-> window.physical_width,
     height |-> window.physical_height,
     usage |-> "RENDER_ATTACHMENT",
     present_mode |-> WgpuPresentMode(window.present_mode),
     desired_maximum_frame_latency |->
        IF IsSome(window.desired_maximum_frame_latency)
        THEN Unwrap(window.desired_maximum_frame_latency)
        ELSE DEFAULT_DESIRED_MAXIMUM_FRAME_LATENCY,
     alpha_mode |-> WgpuCompositeAlphaMode(window.alpha_mode),
     view_formats |-> IF ~IsSrgb(format) THEN <<AddSrgbSuffix(format)>> ELSE <<>>]

\* The closure of or_insert_with: [panicked, data, calls]. cap is what the GPU
\* answers for this window: whether create_surface_unsafe succeeds, and the
\* formats of get_capabilities.
CreateSurfaceData(window, cap) ==
    IF ~cap.surface_ok
    THEN [panicked |-> TRUE, data |-> None,
          calls |-> <<Call("create_surface", None, "Err")>>]
    ELSE IF cap.formats = <<>>
    THEN [panicked |-> TRUE, data |-> None,
          calls |-> <<Call("create_surface", None, "Ok")>>]
    ELSE LET configuration == NewSurfaceConfiguration(window, ChooseFormat(cap.formats))
         IN  [panicked |-> FALSE,
              data |-> Some([surface |-> [handle |-> window.handle],
                             configuration |-> configuration]),
              calls |-> <<Call("create_surface", None, "Ok"),
                          Call("configure_surface", Some(configuration), "Ok")>>]

\* Mutant: only a changed size reconfigures the surface.
NeedsReconfigureSizeOnly(window) == window.size_changed

\* Whether create_surfaces reconfigures the surface of a window.
NeedsReconfigure(window) == window.size_changed \/ window.present_mode_changed

\* Mutant: the update rebuilds the configuration and loses the view formats.
ReconfiguredDropsViewFormats(configuration, window) ==
    [configuration EXCEPT
        !.width = window.physical_width,
        !.height = window.physical_height,
        !.present_mode = WgpuPresentMode(window.present_mode),
        !.view_formats = <<>>]

\* Mutant: the update leaves the present mode out.
ReconfiguredKeepsPresentMode(configuration, window) ==
    [configuration EXCEPT
        !.width = window.physical_width,
        !.height = window.physical_height]

\* The configuration after the update of lines 385-396.
Reconfigured(configuration, window) ==
    [configuration EXCEPT
        !.width = window.physical_width,
        !.height = window.physical_height,
        !.present_mode = WgpuPresentMode(window.present_mode)]

\* Mutant: a resized window gets a new surface.
MustCreateSurfaceOnResize(ws, window) ==
    window.entity \notin DOMAIN ws.surfaces \/ window.size_changed

\* Whether entry(window.entity).or_insert_with creates a surface for the window.
MustCreateSurface(ws, window) == window.entity \notin DOMAIN ws.surfaces

\* The body of the loop of create_surfaces for one window. st is
\* [ws, calls, answered, panicked]; caps maps each window to what the GPU
\* answers when a surface is created for it, answered the windows it was asked for.
CreateSurfacesFor(st, window, caps) ==
    LET e == window.entity
        create == MustCreateSurface(st.ws, window)
        made == IF create THEN CreateSurfaceData(window, caps[e])
                ELSE [panicked |-> FALSE, data |-> Some(st.ws.surfaces[e]), calls |-> <<>>]
        answered == IF create
                    THEN [k \in DOMAIN st.answered \cup {e} |->
                            IF k = e THEN caps[e] ELSE st.answered[k]]
                    ELSE st.answered
    IN  IF made.panicked
        THEN [st EXCEPT !.panicked = TRUE, !.calls[e] = @ \o made.calls,
                        !.answered = answered]
        ELSE LET data0 == Unwrap(made.data)
                 data == IF NeedsReconfigure(window)
                         THEN [data0 EXCEPT
                                 !.configuration = Reconfigured(@, window)]
                         ELSE data0
                 calls == IF NeedsReconfigure(window)
                          THEN made.calls \o
                               <<Call("configure_surface", Some(data.configuration), "Ok")>>
                          ELSE made.calls
             IN  [ws |-> [surfaces |-> [k \in DOMAIN st.ws.surfaces \cup {e} |->
                                          IF k = e THEN data ELSE st.ws.surfaces[k]],
                          configured_windows |-> st.ws.configured_windows \cup {e}],
                  calls |-> [st.calls EXCEPT ![e] = @ \o calls],
                  answered |-> answered,
                  panicked |-> FALSE]

\* The loop of create_surfaces over windows.values(), in the order given; a
\* panic ends it.
RECURSIVE CreateSurfacesLoop(_, _, _, _, _)
CreateSurfacesLoop(st, ews, order, i, caps) ==
    IF i > Len(order) \/ st.panicked THEN st
    ELSE CreateSurfacesLoop(CreateSurfacesFor(st, ews[order[i]], caps), ews, order, i + 1, caps)

CreateSurfaces(capabilities) ==
    /\ pc = "configure"
    /\ NeedSurfaceConfiguration(extracted_windows.windows, window_surfaces)
    /\ \E order \in Orders(DOMAIN extracted_windows.windows),
          caps \in [DOMAIN extracted_windows.windows -> capabilities] :
         LET st == CreateSurfacesLoop(
                      [ws |-> window_surfaces, calls |-> surface_calls,
                       answered |-> adapter_capabilities, panicked |-> FALSE],
                      extracted_windows.windows, order, 1, caps)
         IN  /\ window_surfaces' = st.ws
             /\ surface_calls' = st.calls
             /\ adapter_capabilities' = st.answered
             /\ pc' = IF st.panicked THEN "panicked" ELSE "prepare"
    /\ create_ran' = TRUE
    /\ UNCHANGED <<target_os, adapters, windows, closing, removed, extracted_windows,
                   surfaces_removed, acquired, sorted_cameras, sub_graph_runs, clear_passes, camera_windows, run_result>>

\* run_if(need_surface_configuration) is false: the schedule skips create_surfaces.
SkipCreateSurfaces ==
    /\ pc = "configure"
    /\ ~NeedSurfaceConfiguration(extracted_windows.windows, window_surfaces)
    /\ pc' = "prepare"
    /\ UNCHANGED <<target_os, adapters, windows, closing, removed, extracted_windows,
                   window_surfaces, surfaces_removed, create_ran, surface_calls,
                   adapter_capabilities, acquired, sorted_cameras, sub_graph_runs, clear_passes, camera_windows, run_result>>

\* ------------------------------------------------------- prepare_windows
\* name.starts_with(prefix), on names as sequences of characters.
StartsWith(name, prefix) ==
    /\ Len(name) >= Len(prefix)
    /\ SubSeq(name, 1, Len(prefix)) = prefix

Radeon == <<"R", "a", "d", "e", "o", "n">>
AMD == <<"A", "M", "D">>
Intel == <<"I", "n", "t", "e", "l">>

\* The closure may_erroneously_timeout, which exists under cfg(target_os = "linux").
MayErroneouslyTimeout(adapter_names) ==
    \E i \in 1..Len(adapter_names) :
        \/ StartsWith(adapter_names[i], Radeon)
        \/ StartsWith(adapter_names[i], AMD)
        \/ StartsWith(adapter_names[i], Intel)

\* Mutant: the arm is compiled on every platform.
IgnorableTimeoutAnyOs(os, adapter_names, result) ==
    /\ result = "Timeout"
    /\ MayErroneouslyTimeout(adapter_names)

\* The match arm `Err(Timeout) if may_erroneously_timeout()`, compiled on Linux only.
IgnorableTimeout(os, adapter_names, result) ==
    /\ os = "linux"
    /\ result = "Timeout"
    /\ MayErroneouslyTimeout(adapter_names)

\* ExtractedWindow::set_swapchain_texture; frame is the acquired SurfaceTexture.
SetSwapchainTexture(window, frame) ==
    [window EXCEPT
        !.swap_chain_texture_view = Some([format |-> AddSrgbSuffix(frame.format)]),
        !.swap_chain_texture = Some(frame)]

\* The SurfaceTexture get_current_texture hands out for a surface.
Frame(surface_data) == [format |-> surface_data.configuration.format]

\* Mutant: recording the format also clears the window's change flags.
RecordFormatClearsFlags(window, surface_data) ==
    [window EXCEPT !.swap_chain_texture_format = Some(surface_data.configuration.format),
                   !.size_changed = FALSE,
                   !.present_mode_changed = FALSE]

\* Line 273: the window records the format of its surface.
RecordFormat(window, surface_data) ==
    [window EXCEPT !.swap_chain_texture_format = Some(surface_data.configuration.format)]

\* Mutant: the frame of a successful retry is dropped.
AfterRetryDropsFrame(window, surface_data, second) == window

\* The window after the retry that follows an Outdated first attempt; second
\* is the result of the second get_current_texture.
AfterRetry(window, surface_data, second) ==
    IF second = "Ok"
    THEN RecordFormat(SetSwapchainTexture(window, Frame(surface_data)), surface_data)
    ELSE window

\* Mutant: a retry that fails is treated like a failed first attempt.
RetryPanicsOnError(second) == second # "Ok"

\* Whether the retry's match panics: its Err arm warns and continues.
RetryPanics(second) == FALSE

\* The body of the loop of prepare_windows for one window that has a surface:
\* [window, calls, panicked]. results are the results of get_current_texture,
\* the first attempt and, after Outdated, the second.
PrepareWindow(window, surface_data, results, os, adapter_names) ==
    LET first == results[1]
        get(r) == Call("get_current_texture", None, r)
    IN  IF first = "Ok"
        THEN [window |-> RecordFormat(SetSwapchainTexture(window, Frame(surface_data)),
                                      surface_data),
              calls |-> <<get(first)>>, panicked |-> FALSE]
        ELSE IF first = "Outdated"
        THEN [window |-> AfterRetry(window, surface_data, results[2]),
              calls |-> <<get(first),
                          Call("configure_surface", Some(surface_data.configuration), "Ok"),
                          get(results[2])>>,
              panicked |-> RetryPanics(results[2])]
        ELSE IF IgnorableTimeout(os, adapter_names, first)
        THEN [window |-> RecordFormat(window, surface_data),
              calls |-> <<get(first)>>, panicked |-> FALSE]
        ELSE [window |-> window, calls |-> <<get(first)>>, panicked |-> TRUE]

\* The loop of prepare_windows over windows.values_mut(), in the order given;
\* a window without a surface is skipped, a panic ends the loop.
\* st is [ews, calls, panicked].
RECURSIVE PrepareWindowsLoop(_, _, _, _, _, _, _)
PrepareWindowsLoop(st, ws, order, i, results, os, adapter_names) ==
    IF i > Len(order) \/ st.panicked THEN st
    ELSE LET e == order[i]
             next == IF st.ews[e].entity \notin DOMAIN ws.surfaces
                     THEN st
                     ELSE LET r == PrepareWindow(st.ews[e], ws.surfaces[st.ews[e].entity],
                                                 results[e], os, adapter_names)
                          IN  [ews |-> [st.ews EXCEPT ![e] = r.window],
                               calls |-> [st.calls EXCEPT ![e] = @ \o r.calls],
                               panicked |-> r.panicked]
         IN  PrepareWindowsLoop(next, ws, order, i + 1, results, os, adapter_names)

\* The results of one window's get_current_texture calls in a frame: one
\* result, or Outdated and the result of the retry.
Acquisitions(firsts, seconds) ==
    {<<r>> : r \in firsts \ {"Outdated"}}
        \cup {<<r, r2>> : r \in firsts \cap {"Outdated"}, r2 \in seconds}

PrepareWindows(acquisitions) ==
    /\ pc = "prepare"
    /\ \E order \in Orders(DOMAIN extracted_windows.windows),
          results \in [DOMAIN extracted_windows.windows \cap DOMAIN window_surfaces.surfaces
                         -> acquisitions] :
         LET st == PrepareWindowsLoop(
                      [ews |-> extracted_windows.windows, calls |-> surface_calls,
                       panicked |-> FALSE],
                      window_surfaces, order, 1, results, target_os, adapters)
         IN  /\ extracted_windows' = [extracted_windows EXCEPT !.windows = st.ews]
             /\ surface_calls' = st.calls
             /\ acquired' = {w \in WindowEntities :
                                \E i \in 1..Len(st.calls[w]) :
                                    st.calls[w][i] = Call("get_current_texture", None, "Ok")}
             /\ pc' = IF st.panicked THEN "panicked" ELSE "dispatch"
    /\ UNCHANGED <<target_os, adapters, windows, closing, removed, window_surfaces,
                   surfaces_removed, create_ran, adapter_capabilities, sorted_cameras, sub_graph_runs, clear_passes,
                   camera_windows, run_result>>

\* ------------------------------------------------- CameraDriverNode::run
\* Whether a camera with this target has its render graph run (run_graph of
\* the loop body): not when the target is a window that is not in
\* ExtractedWindows or has a zero width or height.
WindowIsLive(ews, window_entity) ==
    /\ window_entity \in DOMAIN ews
    /\ ews[window_entity].physical_width > 0
    /\ ews[window_entity].physical_height > 0

\* Mutant: the render graph runs whatever the state of the target window.
RunGraphAlways(ews, camera) == TRUE

RunGraph(ews, camera) ==
    camera.target.kind = "Window" => WindowIsLive(ews, camera.target.window)

\* camera_windows after the loop body for one camera.
InsertCameraWindow(serviced, ews, camera) ==
    IF camera.target.kind = "Window" /\ WindowIsLive(ews, camera.target.window)
    THEN serviced \cup {camera.target.window}
    ELSE serviced

\* Mutant: a camera whose window an earlier camera serviced is skipped.
CameraStepOncePerWindow(st, ews, camera) ==
    IF ~camera.extracted THEN st
    ELSE IF camera.target.kind = "Window" /\ camera.target.window \in st.camera_windows
    THEN st
    ELSE IF camera.target.kind = "Window" /\ ~WindowIsLive(ews, camera.target.window)
    THEN st
    ELSE [camera_windows |-> IF camera.target.kind = "Window"
                             THEN st.camera_windows \cup {camera.target.window}
                             ELSE st.camera_windows,
          runs |-> Append(st.runs, [graph |-> camera.render_graph, inputs |-> <<>>,
                                    view_entity |-> Some(camera.entity)]),
          result |-> camera.graph_result]

\* The body of the loop over sorted_cameras for one camera, on
\* [camera_windows, runs, result]: a camera without an ExtractedCamera is
\* skipped; result is what run_sub_graph returned.
CameraStep(st, ews, camera) ==
    IF ~camera.extracted THEN st
    ELSE LET serviced == InsertCameraWindow(st.camera_windows, ews, camera)
         IN  IF RunGraph(ews, camera)
             THEN [camera_windows |-> serviced,
                   runs |-> Append(st.runs,
                                   [graph |-> camera.render_graph,
                                    inputs |-> <<>>,
                                    view_entity |-> Some(camera.entity)]),
                   result |-> camera.graph_result]
             ELSE [st EXCEPT !.camera_windows = serviced]

\* The loop over sorted_cameras; the `?` returns at the first Err.
RECURSIVE CameraLoop(_, _, _, _)
CameraLoop(st, ews, cameras, i) ==
    IF i > Len(cameras) \/ st.result = "Err" THEN st
    ELSE CameraLoop(CameraStep(st, ews, cameras[i]), ews, cameras, i + 1)

\* Mutant: a window is cleared whether or not a camera serviced it.
ClearsWindowServicedToo(serviced, id, window) == IsSome(window.swap_chain_texture_view)

\* Whether the loop over the windows gives this window a clear pass.
ClearsWindow(serviced, id, window) ==
    /\ id \notin serviced
    /\ IsSome(window.swap_chain_texture_view)

\* Mutant: the loop over the windows runs after an Err too.
ClearPassesAfterErr(st, ews) ==
    [id \in WindowEntities |->
        IF id \in DOMAIN ews /\ ClearsWindow(st.camera_windows, id, ews[id]) THEN 1 ELSE 0]

\* The clear passes per window: those of the loop over the windows, which
\* runs only when the loop over the cameras did not return an Err.
ClearPasses(st, ews) ==
    [id \in WindowEntities |->
        IF /\ st.result = "Ok"
           /\ id \in DOMAIN ews
           /\ ClearsWindow(st.camera_windows, id, ews[id])
        THEN 1 ELSE 0]

\* NormalizedRenderTarget of a camera, or none.
Targets == {[kind |-> "Window", window |-> w] : w \in WindowEntities}
               \cup {[kind |-> "Image", window |-> 0], [kind |-> "None", window |-> 0]}

\* An entry of SortedCameras with the ExtractedCamera of its entity, if any.
Cameras(entity) ==
    {[entity |-> entity, extracted |-> FALSE, target |-> [kind |-> "None", window |-> 0],
      render_graph |-> "none", graph_result |-> "Ok"]}
        \cup [entity : {entity}, extracted : {TRUE}, target : Targets,
              render_graph : {"Core3d"}, graph_result : {"Ok", "Err"}]

\* SortedCameras: up to MaxCameras cameras of distinct entities; the order of
\* the list is not the order of the entities.
SortedCameraLists ==
    UNION {{cs \in [1..n -> UNION {Cameras(e) : e \in CameraEntities}] :
               \A i \in 1..n : cs[i].entity = n + 1 - i} : n \in 0..MaxCameras}

CameraDriverRun(camera_lists) ==
    /\ pc = "dispatch"
    /\ \E cameras \in camera_lists :
         LET st == CameraLoop([camera_windows |-> {}, runs |-> <<>>, result |-> "Ok"],
                              extracted_windows.windows, cameras, 1)
         IN  /\ sorted_cameras' = cameras
             /\ sub_graph_runs' = st.runs
             /\ camera_windows' = st.camera_windows
             /\ run_result' = st.result
             /\ clear_passes' = ClearPasses(st, extracted_windows.windows)
    /\ pc' = "extract"
    /\ windows' = << >>
    /\ create_ran' = FALSE
    /\ surface_calls' = NoCalls
    /\ adapter_capabilities' = << >>
    /\ UNCHANGED <<target_os, adapters, closing, removed, extracted_windows, window_surfaces,
                   surfaces_removed, acquired>>

\* ------------------------------------------------------- specifications
Init ==
    /\ pc = "extract"
    /\ target_os = "linux"
    /\ adapters = <<Intel>>
    /\ windows = << >>
    /\ closing = {}
    /\ removed = {}
    /\ extracted_windows = [primary |-> None, windows |-> << >>]
    /\ window_surfaces = [surfaces |-> << >>, configured_windows |-> {}]
    /\ surfaces_removed = {}
    /\ create_ran = FALSE
    /\ surface_calls = NoCalls
    /\ adapter_capabilities = << >>
    /\ acquired = {}
    /\ sorted_cameras = <<>>
    /\ sub_graph_runs = <<>>
    /\ clear_passes = NoClears
    /\ camera_windows = {}
    /\ run_result = "none"

\* Frames of two windows that open, close, resize and change present mode.
SurfaceQueries ==
    WindowQueries(WindowEntities,
                  QueriedWindows({<<0, 1>>, <<1, 2>>}, {"Fifo", "Mailbox"},
                                 {None}, {"Auto"}, {FALSE}))
SurfaceCapabilities == {[surface_ok |-> TRUE, formats |-> <<"Rgba8Unorm", "Bgra8UnormSrgb">>]}
SurfaceAcquisitions == Acquisitions({"Ok", "Outdated"}, {"Ok", "Timeout"})
SurfaceCameraLists == {<<>>}

Next ==
    \/ ExtractWindows(SurfaceQueries, WindowEvents(WindowEntities))
    \/ CreateSurfaces(SurfaceCapabilities)
    \/ SkipCreateSurfaces
    \/ PrepareWindows(SurfaceAcquisitions)
    \/ CameraDriverRun(SurfaceCameraLists)

Spec == Init /\ [][Next]_vars

\* Frames of one window of any size up to MaxWidth x MaxHeight, whose
\* acquisition may succeed, be retried, be ignored or be fatal.
ResizeQueries ==
    WindowQueries({1},
                  QueriedWindows((0..MaxWidth) \X (0..MaxHeight),
                                 {"Fifo", "Mailbox", "Immediate"}, {None}, {"Auto"}, {FALSE}))
ResizeAcquisitions ==
    Acquisitions({"Ok", "Outdated", "Timeout", "Lost"}, {"Ok", "Timeout", "Lost"})

NextResize ==
    \/ ExtractWindows(ResizeQueries, WindowEvents({1}))
    \/ CreateSurfaces(SurfaceCapabilities)
    \/ SkipCreateSurfaces
    \/ PrepareWindows(ResizeAcquisitions)
    \/ CameraDriverRun(SurfaceCameraLists)

SpecResize == Init /\ [][NextResize]_vars

\* Frames of two windows that open and close, with any cameras on them.
DispatchQueries ==
    WindowQueries(WindowEntities,
                  QueriedWindows({<<0, 0>>, <<1, 1>>}, {"Fifo"}, {None}, {"Auto"}, {FALSE}))
DispatchAcquisitions == Acquisitions({"Ok", "Outdated"}, {"Timeout"})
DispatchEvents == {<<c, {}>> : c \in SUBSET WindowEntities}

NextDispatch ==
    \/ ExtractWindows(DispatchQueries, DispatchEvents)
    \/ CreateSurfaces(SurfaceCapabilities)
    \/ SkipCreateSurfaces
    \/ PrepareWindows(DispatchAcquisitions)
    \/ CameraDriverRun(SortedCameraLists)

SpecDispatch == Init /\ [][NextDispatch]_vars

\* Builds for Linux and for Windows, on machines whose Vulkan adapters have
\* these names: affected vendors, other vendors, and names that hold a
\* vendor's name without starting with it.
TargetOs == {"linux", "windows"}
NVIDIA == <<"N", "V", "I", "D", "I", "A">>
AdapterNames ==
    {Radeon \o <<" ", "R", "X">>, AMD \o <<" ", "R", "A", "D", "V">>, Intel \o <<"(", "R", ")">>,
     NVIDIA, <<"I", "n", "t">>, <<"M", "e", "s", "a", " ">> \o Intel}
AdapterLists ==
    {<<>>} \cup {<<name>> : name \in AdapterNames}
           \cup {<<NVIDIA, name>> : name \in {AMD \o <<" ", "R", "A", "D", "V">>, <<"I", "n", "t">>}}

\* The state after construction, on any of these builds and machines.
InitAcquire ==
    /\ pc = "extract"
    /\ target_os \in TargetOs
    /\ adapters \in AdapterLists
    /\ windows = << >>
    /\ closing = {}
    /\ removed = {}
    /\ extracted_windows = [primary |-> None, windows |-> << >>]
    /\ window_surfaces = [surfaces |-> << >>, configured_windows |-> {}]
    /\ surfaces_removed = {}
    /\ create_ran = FALSE
    /\ surface_calls = NoCalls
    /\ adapter_capabilities = << >>
    /\ acquired = {}
    /\ sorted_cameras = <<>>
    /\ sub_graph_runs = <<>>
    /\ clear_passes = NoClears
    /\ camera_windows = {}
    /\ run_result = "none"

\* Frames of two windows that open and close, each acquisition with any
\* result of get_current_texture, first attempt and retry.
AcquireQueries ==
    WindowQueries(WindowEntities,
                  QueriedWindows({<<1, 1>>}, {"Fifo"}, {None}, {"Auto"}, {FALSE}))
SurfaceErrors == {"Timeout", "Outdated", "Lost", "OutOfMemory"}
AcquireAcquisitions == Acquisitions({"Ok"} \cup SurfaceErrors, {"Ok"} \cup SurfaceErrors)

NextAcquire ==
    \/ ExtractWindows(AcquireQueries, DispatchEvents)
    \/ CreateSurfaces(SurfaceCapabilities)
    \/ SkipCreateSurfaces
    \/ PrepareWindows(AcquireAcquisitions)
    \/ CameraDriverRun(SurfaceCameraLists)

SpecAcquire == InitAcquire /\ [][NextAcquire]_vars

\* Frames of one window whose size, present mode, frame latency and alpha
\* mode change, on a GPU that may fail to create the surface and reports up
\* to MaxFormats supported formats, in any order.
ConfigureQueries ==
    WindowQueries({1},
                  QueriedWindows({<<1, 1>>, <<2, 1>>}, {"Fifo", "Mailbox"}, {None, Some(1)},
                                 {"Auto", "Opaque"}, {FALSE}))
TextureFormats == {"Rgba8Unorm", "Rgba16Float", "Rgba8UnormSrgb", "Bgra8UnormSrgb"}
FormatLists == UNION {[1..n -> TextureFormats] : n \in 0..MaxFormats}
ConfigureCapabilities ==
    {[surface_ok |-> TRUE, formats |-> formats] : formats \in FormatLists}
        \cup {[surface_ok |-> FALSE, formats |-> <<>>]}
ConfigureAcquisitions == Acquisitions({"Ok"}, {})

NextConfigure ==
    \/ ExtractWindows(ConfigureQueries, WindowEvents({1}))
    \/ CreateSurfaces(ConfigureCapabilities)
    \/ SkipCreateSurfaces
    \/ PrepareWindows(ConfigureAcquisitions)
    \/ CameraDriverRun(SurfaceCameraLists)

SpecConfigure == Init /\ [][NextConfigure]_vars

\* Frames of two windows that open and close, any of them carrying the
\* PrimaryWindow marker.
PrimaryQueries ==
    WindowQueries(WindowEntities,
                  QueriedWindows({<<1, 1>>}, {"Fifo"}, {None}, {"Auto"}, {TRUE, FALSE}))

NextPrimary ==
    \/ ExtractWindows(PrimaryQueries, WindowEvents(WindowEntities))
    \/ CreateSurfaces(SurfaceCapabilities)
    \/ SkipCreateSurfaces
    \/ PrepareWindows(ConfigureAcquisitions)
    \/ CameraDriverRun(SurfaceCameraLists)

SpecPrimary == Init /\ [][NextPrimary]_vars

\* ------------------------------------------------------ the dispatch pass
\* CameraDriverNode::run has returned, and no later frame has begun.
DispatchDone == pc = "extract" /\ run_result # "none"

\* The windows of ExtractedWindows whose acquisition succeeded this frame.
AcquiredWindows == acquired \cap DOMAIN extracted_windows.windows

\* The positions in sorted_cameras of the cameras whose sub graph was run.
RunPositions(entity) ==
    {i \in 1..Len(sub_graph_runs) : sub_graph_runs[i].view_entity = Some(entity)}

\* The number of sub graph runs for cameras that target the window w.
RunsOnWindow(w) ==
    Cardinality({i \in 1..Len(sub_graph_runs) :
        \E k \in 1..Len(sorted_cameras) :
            /\ sorted_cameras[k].extracted
            /\ sub_graph_runs[i].view_entity = Some(sorted_cameras[k].entity)
            /\ sorted_cameras[k].target = [kind |-> "Window", window |-> w]})

\* The camera targets a window that is not in the Mirror, or is there with a
\* zero width or height.
TargetsDeadWindow(camera) ==
    /\ camera.target.kind = "Window"
    /\ \/ camera.target.window \notin DOMAIN extracted_windows.windows
       \/ extracted_windows.windows[camera.target.window].physical_width = 0
       \/ extracted_windows.windows[camera.target.window].physical_height = 0

\* The cameras of sorted_cameras that are to be dispatched, in priority order.
Dispatchable == SelectSeq(sorted_cameras, LAMBDA c : c.extracted /\ ~TargetsDeadWindow(c))

\* The position in Dispatchable of the first camera whose render graph
\* fails, or its length if none does: the cameras the pass reaches.
FirstFailure ==
    IF \E i \in 1..Len(Dispatchable) : Dispatchable[i].graph_result = "Err"
    THEN CHOOSE i \in 1..Len(Dispatchable) :
            /\ Dispatchable[i].graph_result = "Err"
            /\ \A j \in 1..(i - 1) : Dispatchable[j].graph_result = "Ok"
    ELSE Len(Dispatchable)

\* C1 as stated: at the end of the dispatch pass every window whose
\* acquisition succeeded this frame was serviced by exactly one render-graph
\* run or got exactly one clear pass, never both and never neither.
C1_ExactlyOneRunOrOneClear ==
    DispatchDone =>
        \A w \in AcquiredWindows :
            \/ RunsOnWindow(w) = 1 /\ clear_passes[w] = 0
            \/ RunsOnWindow(w) = 0 /\ clear_passes[w] = 1

\* C1 amended: at the end of a dispatch pass that returned Ok every window
\* whose acquisition succeeded this frame was serviced by at least one
\* render-graph run or got exactly one clear pass, never both and never neither.
C1_RunsOrOneClear ==
    DispatchDone /\ run_result = "Ok" =>
        \A w \in AcquiredWindows :
            \/ RunsOnWindow(w) >= 1 /\ clear_passes[w] = 0
            \/ RunsOnWindow(w) = 0 /\ clear_passes[w] = 1

\* A pass that returned Ok with one acquired window serviced by two cameras
\* and the other acquired window cleared.
C1_Witness ==
    /\ DispatchDone /\ run_result = "Ok"
    /\ \E w, v \in AcquiredWindows :
        /\ RunsOnWindow(w) = 2 /\ clear_passes[w] = 0
        /\ RunsOnWindow(v) = 0 /\ clear_passes[v] = 1

C4_ErrorAbortsThePass ==
    DispatchDone =>
        /\ run_result = "Err" <=>
              \E i \in 1..Len(Dispatchable) : Dispatchable[i].graph_result = "Err"
        /\ run_result = "Err" =>
              /\ sub_graph_runs # <<>>
              /\ sub_graph_runs[Len(sub_graph_runs)].view_entity
                    = Some(Dispatchable[FirstFailure].entity)
              /\ \A i \in (FirstFailure + 1)..Len(Dispatchable) :
                    RunPositions(Dispatchable[i].entity) = {}
              /\ \A w \in WindowEntities : clear_passes[w] = 0

\* A pass that failed on its first camera, with a dispatchable camera after
\* it and an acquired window that no camera serviced.
C4_Witness ==
    /\ DispatchDone /\ run_result = "Err"
    /\ Len(Dispatchable) = 2
    /\ FirstFailure = 1
    /\ Len(sub_graph_runs) = 1
    /\ \E w \in AcquiredWindows : w \notin camera_windows /\ clear_passes[w] = 0

\* ------------------------------------------------- the surface registry
\* The entries of the Surface Registry and of the Mirror.
Surfaces == window_surfaces.surfaces
Mirror == extracted_windows.windows

\* prepare_windows has run this frame and no later frame has begun.
Prepared == pc = "dispatch" \/ (pc = "extract" /\ run_result # "none")

\* The calls with this name among a window's surface calls.
CallsOf(calls, op) == {i \in 1..Len(calls) : calls[i].op = op}

\* C5: after prepare_windows, the configuration of every SurfaceData has the
\* width, height and present mode of its window's ExtractedWindow, also for
\* the windows whose acquisition failed.
C5_ConfigurationMatchesWindow ==
    Prepared =>
        \A w \in DOMAIN Surfaces \cap DOMAIN Mirror :
            /\ Surfaces[w].configuration.width = Mirror[w].physical_width
            /\ Surfaces[w].configuration.height = Mirror[w].physical_height
            /\ Surfaces[w].configuration.present_mode = WgpuPresentMode(Mirror[w].present_mode)

\* After prepare_windows: the window changed both its size and its present
\* mode this frame, its surface is from an earlier frame and was reconfigured,
\* and its acquisition failed on the retry.
C5_Witness ==
    /\ pc = "dispatch"
    /\ \E w \in DOMAIN Surfaces \cap DOMAIN Mirror :
        /\ Mirror[w].size_changed /\ Mirror[w].present_mode_changed
        /\ Mirror[w].physical_width = MaxWidth /\ Mirror[w].physical_height = MaxHeight
        /\ CallsOf(surface_calls[w], "create_surface") = {}
        /\ Cardinality(CallsOf(surface_calls[w], "get_current_texture")) = 2
        /\ Mirror[w].swap_chain_texture_view = None
        /\ Surfaces[w].configuration.width = MaxWidth
        /\ Surfaces[w].configuration.height = MaxHeight
        /\ Surfaces[w].configuration.present_mode = "wgpu::PresentMode::Immediate"

\* C6: in every state between two systems, every window that has a
\* SurfaceData also has an ExtractedWindow.
C6_SurfaceEntriesHaveWindows == DOMAIN Surfaces \subseteq DOMAIN Mirror

\* After an extraction that removed the SurfaceData of a window with its
\* ExtractedWindow, while the other window keeps both.
C6_Witness ==
    /\ pc = "configure"
    /\ \E w \in surfaces_removed, v \in DOMAIN Surfaces :
        /\ w \notin DOMAIN Mirror
        /\ w \notin DOMAIN Surfaces
        /\ v \in DOMAIN Mirror

\* C7: from the end of an extraction that read a close event or a
\* handle-removal event for a window to the end of the frame, the window has
\* no ExtractedWindow, no SurfaceData and no ConfiguredSet membership, no
\* call is made on a surface for it and it gets no clear pass.
C7_ClosedWindowsAreGone ==
    \A w \in closing \cup removed :
        /\ w \notin DOMAIN Mirror
        /\ w \notin DOMAIN Surfaces
        /\ w \notin window_surfaces.configured_windows
        /\ surface_calls[w] = <<>>
        /\ clear_passes[w] = 0

\* After prepare_windows in a frame with a close event for a window that the
\* query still lists and that had a SurfaceData, the other window acquired.
C7_Witness ==
    /\ pc = "dispatch"
    /\ \E w \in closing \cap DOMAIN windows \cap surfaces_removed :
        /\ w \notin DOMAIN Mirror
        /\ surface_calls[w] = <<>>
    /\ \E v \in DOMAIN Mirror : IsSome(Mirror[v].swap_chain_texture_view)

\* The flags of one window after extraction, against the window as queried
\* this frame and the ExtractedWindow as it was before this extraction.
FlagsCompareWithStored(old, queried, new) ==
    /\ new.size_changed <=>
          \/ Max(queried.physical_width, 1) # old.physical_width
          \/ Max(queried.physical_height, 1) # old.physical_height
    /\ new.present_mode_changed <=> queried.present_mode # old.present_mode

\* C8: across every extraction, for a queried window that had an
\* ExtractedWindow before, size_changed is true iff the clamped size of this
\* frame differs from the stored one and present_mode_changed is true iff
\* the present mode differs from the stored one.
C8_FlagsCompareWithPreviousFrame ==
    [][pc = "extract" =>
        \A w \in DOMAIN Mirror \cap DOMAIN windows' \cap DOMAIN extracted_windows'.windows :
            FlagsCompareWithStored(Mirror[w], windows'[w], extracted_windows'.windows[w])]_vars

\* After an extraction in which the height of the window alone changed:
\* size_changed is set and present_mode_changed is not.
C8_Witness ==
    /\ pc = "configure"
    /\ \E w \in DOMAIN Mirror \cap DOMAIN windows :
        /\ Mirror[w].size_changed /\ ~Mirror[w].present_mode_changed
        /\ Mirror[w].physical_width = 1 /\ Mirror[w].physical_height = MaxHeight
        /\ IsSome(Mirror[w].swap_chain_texture)
        /\ windows[w].physical_width = 0

\* What need_surface_configuration is to return for a Mirror and a ConfiguredSet.
ConfigurationNeeded(mirror, configured) ==
    \E w \in DOMAIN mirror :
        \/ w \notin configured
        \/ mirror[w].size_changed
        \/ mirror[w].present_mode_changed

\* C9: create_surfaces runs in a frame iff some window of the Mirror is
\* absent from the ConfiguredSet or has size_changed or present_mode_changed
\* set; otherwise the Surface Registry is left as it is and no call is made
\* on a surface.
C9_ConfigurationRunsIffNeeded ==
    [][pc = "configure" =>
        /\ create_ran' <=> ConfigurationNeeded(Mirror, window_surfaces.configured_windows)
        /\ ~create_ran' => /\ window_surfaces' = window_surfaces
                           /\ surface_calls' = surface_calls]_vars

\* create_surfaces was skipped with two configured, unchanged windows in the Mirror.
C9_Witness ==
    /\ pc = "prepare"
    /\ ~create_ran
    /\ DOMAIN Mirror = WindowEntities
    /\ window_surfaces.configured_windows = WindowEntities

\* create_surfaces run a second time on the state it produced, with the GPU
\* ready to create any surface.
CreatedAgain(mirror, ws) ==
    CreateSurfacesLoop([ws |-> ws, calls |-> NoCalls, answered |-> << >>, panicked |-> FALSE],
                       mirror,
                       CHOOSE order \in Orders(DOMAIN mirror) : TRUE, 1,
                       [w \in WindowEntities |-> CHOOSE cap \in SurfaceCapabilities : TRUE])

\* One window across a run of create_surfaces: a surface is created iff the
\* window had none; an entry of a window with neither flag set is left as it
\* is with no call on its surface; a second run creates nothing.
CreatesOnlyMissing(w, window, before, after, calls, again) ==
    /\ w \in DOMAIN after.surfaces
    /\ Cardinality(CallsOf(calls, "create_surface")) = IF w \in DOMAIN before.surfaces THEN 0 ELSE 1
    /\ w \in DOMAIN before.surfaces =>
          /\ after.surfaces[w].surface = before.surfaces[w].surface
          /\ ~window.size_changed /\ ~window.present_mode_changed =>
                /\ after.surfaces[w] = before.surfaces[w]
                /\ calls = <<>>
    /\ CallsOf(again.calls[w], "create_surface") = {}
    /\ again.ws = after

\* C10: across every run of create_surfaces, a surface is created for a
\* window only when the Registry holds no SurfaceData for it, an existing
\* entry of an unchanged window is neither changed nor reconfigured, and
\* running create_surfaces again creates no surface.
C10_SurfaceCreatedOncePerWindow ==
    [][pc = "configure" /\ pc' = "prepare" /\ create_ran' =>
        \A w \in DOMAIN Mirror :
            CreatesOnlyMissing(w, Mirror[w], window_surfaces, window_surfaces',
                               surface_calls'[w], CreatedAgain(Mirror, window_surfaces'))]_vars

\* create_surfaces ran and created the surface of a new window while the
\* other window, unchanged, kept the entry it had without a call on it.
C10_Witness ==
    /\ pc = "prepare"
    /\ create_ran
    /\ \E w, v \in DOMAIN Mirror \cap DOMAIN Surfaces :
        /\ Cardinality(CallsOf(surface_calls[w], "create_surface")) = 1
        /\ surface_calls[v] = <<>>
        /\ IsSome(Mirror[v].swap_chain_texture_format)

\* ------------------------------------------------------ the acquisition
\* The positions of the get_current_texture calls among the calls made on
\* the surface of w this frame, and the first of them.
Attempts(w) == CallsOf(surface_calls[w], "get_current_texture")
FirstAttempt(w) == CHOOSE i \in Attempts(w) : \A j \in Attempts(w) : i <= j

\* The adapter names of the model that begin with Radeon, AMD or Intel.
AffectedAdapters ==
    {<<"R", "a", "d", "e", "o", "n", " ", "R", "X">>,
     <<"A", "M", "D", " ", "R", "A", "D", "V">>,
     <<"I", "n", "t", "e", "l", "(", "R", ")">>}

\* The build is for Linux and some enumerated adapter is an affected one.
TimeoutIsIgnorable ==
    /\ target_os = "linux"
    /\ \E i \in 1..Len(adapters) : adapters[i] \in AffectedAdapters

\* The only attempt on w failed, neither with Outdated nor with an ignorable Timeout.
FatalAttempt(w) ==
    /\ Cardinality(Attempts(w)) = 1
    /\ surface_calls[w][FirstAttempt(w)].result \notin {"Ok", "Outdated"}
    /\ ~(surface_calls[w][FirstAttempt(w)].result = "Timeout" /\ TimeoutIsIgnorable)

\* The process did not terminate, or it did on the attempt of another window.
NoFatalErrorFor(w) == pc = "panicked" => \E v \in WindowEntities \ {w} : FatalAttempt(v)

\* The texture and the view set_swapchain_texture stores for the surface of w.
HoldsFrameOf(w) ==
    /\ Mirror[w].swap_chain_texture = Some([format |-> Surfaces[w].configuration.format])
    /\ Mirror[w].swap_chain_texture_view
          = Some([format |-> AddSrgbSuffix(Surfaces[w].configuration.format)])

\* C11: in a frame there are at most two acquisition attempts on a window;
\* an Outdated first attempt is followed by a configure_surface with the
\* stored configuration and then by the one retry; a second attempt only
\* comes that way; and a successful retry stores the texture and its view
\* with no fatal error.
C11_OutdatedRetriedOnce ==
    \A w \in WindowEntities :
        LET calls == surface_calls[w]
        IN  /\ Cardinality(Attempts(w)) <= 2
            /\ \A i \in Attempts(w) :
                  IF i = FirstAttempt(w)
                  THEN calls[i].result = "Outdated" =>
                          /\ Len(calls) = i + 2
                          /\ calls[i + 1] = Call("configure_surface",
                                                 Some(Surfaces[w].configuration), "Ok")
                          /\ calls[i + 2].op = "get_current_texture"
                  ELSE /\ calls[FirstAttempt(w)].result = "Outdated"
                       /\ i = FirstAttempt(w) + 2
                       /\ calls[i - 1].op = "configure_surface"
                       /\ calls[i].result = "Ok" =>
                              /\ w \in acquired
                              /\ HoldsFrameOf(w)
                              /\ NoFatalErrorFor(w)

\* After prepare_windows: a window whose first attempt was Outdated and whose
\* retry succeeded holds the frame, while the retry of the other window failed.
C11_Witness ==
    /\ pc = "dispatch"
    /\ \E w, v \in DOMAIN Mirror :
        /\ Cardinality(Attempts(w)) = 2
        /\ surface_calls[w][Len(surface_calls[w])].result = "Ok"
        /\ HoldsFrameOf(w)
        /\ Cardinality(Attempts(v)) = 2
        /\ surface_calls[v][Len(surface_calls[v])].result = "Outdated"

\* The retry on w failed.
RetryFailed(w) ==
    /\ Cardinality(Attempts(w)) = 2
    /\ surface_calls[w][Len(surface_calls[w])].result # "Ok"

\* C12: when the retry after Outdated fails, with any error, the process
\* does not terminate for it, the window (one of this frame's query) ends
\* prepare_windows with no texture view and is not acquired, and, unless
\* another window's attempt is fatal, every window that has a surface gets
\* its acquisition attempt.
C12_FailedRetryIsNotFatal ==
    \A w \in WindowEntities :
        RetryFailed(w) =>
            /\ NoFatalErrorFor(w)
            /\ w \notin acquired
            /\ w \in DOMAIN windows => Mirror[w].swap_chain_texture_view = None
            /\ pc # "panicked" =>
                  \A v \in DOMAIN Mirror \cap DOMAIN Surfaces : Attempts(v) # {}

\* After prepare_windows: the retries of both windows failed, one with a lost
\* device and one out of memory, and the process goes on.
C12_Witness ==
    /\ pc = "dispatch"
    /\ \E w, v \in DOMAIN Mirror \cap DOMAIN windows :
        /\ RetryFailed(w) /\ surface_calls[w][Len(surface_calls[w])].result = "Lost"
        /\ RetryFailed(v) /\ surface_calls[v][Len(surface_calls[v])].result = "OutOfMemory"
        /\ Mirror[w].swap_chain_texture_view = None

\* C13: a first attempt that fails with anything but Outdated is not retried
\* and stores no texture; it terminates the process unless it is a Timeout on
\* a Linux build with an affected adapter enumerated, which is ignored: the
\* process goes on and the window is left without a view. The process
\* terminates in prepare_windows for no other reason.
C13_OnlyQuirkTimeoutIsIgnored ==
    /\ \A w \in WindowEntities :
          Attempts(w) # {} /\ surface_calls[w][FirstAttempt(w)].result \notin {"Ok", "Outdated"} =>
              /\ Cardinality(Attempts(w)) = 1
              /\ CallsOf(surface_calls[w], "configure_surface") \cap
                    {i \in 1..Len(surface_calls[w]) : i > FirstAttempt(w)} = {}
              /\ w \notin acquired
              /\ IF surface_calls[w][FirstAttempt(w)].result = "Timeout" /\ TimeoutIsIgnorable
                 THEN /\ NoFatalErrorFor(w)
                      /\ w \in DOMAIN windows => Mirror[w].swap_chain_texture_view = None
                 ELSE pc = "panicked"
    /\ pc = "panicked" => \E w \in WindowEntities : FatalAttempt(w)

\* After prepare_windows on a Linux build with an NVIDIA and an AMD adapter:
\* the Timeout of one window was ignored and the other window was acquired.
C13_Witness ==
    /\ pc = "dispatch"
    /\ target_os = "linux"
    /\ Len(adapters) = 2
    /\ \E w, v \in DOMAIN Mirror \cap DOMAIN windows :
        /\ Cardinality(Attempts(w)) = 1
        /\ surface_calls[w][FirstAttempt(w)].result = "Timeout"
        /\ Mirror[w].swap_chain_texture_view = None
        /\ v \in acquired

\* C14 as stated: after prepare_windows every window that has a SurfaceData
\* has its swap_chain_texture_format set to the format of the surface's
\* configuration, whatever became of its acquisition.
C14_FormatRecordedForEverySurface ==
    Prepared =>
        \A w \in DOMAIN Surfaces \cap DOMAIN Mirror :
            Mirror[w].swap_chain_texture_format = Some(Surfaces[w].configuration.format)

\* The windows of this frame's query that extraction left in the Mirror.
LiveWindows == DOMAIN windows \cap DOMAIN Mirror

\* C15 as stated: after extraction every live window holds neither a
\* swap_chain_texture nor a swap_chain_texture_view, and a texture or view
\* that a live window holds at dispatch time was acquired this frame.
C15_NothingCarriedOver ==
    /\ pc = "configure" =>
          \A w \in LiveWindows :
              /\ Mirror[w].swap_chain_texture = None
              /\ Mirror[w].swap_chain_texture_view = None
    /\ pc = "dispatch" =>
          \A w \in LiveWindows :
              IsSome(Mirror[w].swap_chain_texture) \/ IsSome(Mirror[w].swap_chain_texture_view)
                  => w \in acquired

\* The configure_surface calls made on the surface of w this frame before
\* the first acquisition attempt on it.
ConfiguredBeforeAttempt(w) ==
    {i \in CallsOf(surface_calls[w], "configure_surface") : i < FirstAttempt(w)}

\* The configuration carries the size and the present mode of the window.
CarriesWindow(configuration, window) ==
    /\ configuration.width = window.physical_width
    /\ configuration.height = window.physical_height
    /\ configuration.present_mode = WgpuPresentMode(window.present_mode)

\* C16: an acquisition attempt is made on a surface only when it has been
\* created and configured (in this frame: create_surface, then
\* configure_surface, then the attempt), and when the window's size_changed
\* or present_mode_changed is set this frame, the last configure_surface
\* before the first attempt carries the window's new width, height and
\* present mode.
C16_ConfiguredBeforeAcquired ==
    \A w \in WindowEntities :
        Attempts(w) # {} =>
            /\ w \in DOMAIN Surfaces
            /\ w \in window_surfaces.configured_windows
            /\ \A c \in CallsOf(surface_calls[w], "create_surface") :
                  \E i \in ConfiguredBeforeAttempt(w) : c < i
            /\ Mirror[w].size_changed \/ Mirror[w].present_mode_changed =>
                  /\ ConfiguredBeforeAttempt(w) # {}
                  /\ \A i \in ConfiguredBeforeAttempt(w) :
                        (\A j \in ConfiguredBeforeAttempt(w) : j <= i) =>
                            CarriesWindow(Unwrap(surface_calls[w][i].configuration), Mirror[w])

\* After prepare_windows: the present mode of the window alone changed this
\* frame, its surface of an earlier frame was reconfigured to Mailbox and
\* then acquired at the first attempt.
C16_Witness ==
    /\ pc = "dispatch"
    /\ \E w \in DOMAIN Mirror :
        /\ Mirror[w].present_mode_changed /\ ~Mirror[w].size_changed
        /\ Mirror[w].present_mode = "Mailbox"
        /\ CallsOf(surface_calls[w], "create_surface") = {}
        /\ ConfiguredBeforeAttempt(w) = {1}
        /\ Attempts(w) = {2}
        /\ Unwrap(surface_calls[w][1].configuration).present_mode = "wgpu::PresentMode::Mailbox"
        /\ w \in acquired

\* ------------------------------------------------- the configuration
\* The sRGB-encoded formats among the formats of the model.
SrgbFormats == {"Rgba8UnormSrgb", "Bgra8UnormSrgb"}

\* The first sRGB-encoded format of a list that is not empty, or its first
\* format if it holds none.
PreferredFormat(formats) ==
    LET srgb == {i \in 1..Len(formats) : formats[i] \in SrgbFormats}
    IN  IF srgb = {} THEN formats[1]
        ELSE formats[CHOOSE i \in srgb : \A j \in srgb : i <= j]

\* C17: a surface created this frame has the first sRGB-encoded format of
\* the supported formats the adapter reported for it, or the first format
\* if none is sRGB-encoded; when the list is empty (or the surface cannot be
\* created) the process terminates and the window has no SurfaceData and is
\* not in the ConfiguredSet.
C17_FormatPrefersSrgb ==
    \A w \in DOMAIN adapter_capabilities :
        IF adapter_capabilities[w].surface_ok /\ adapter_capabilities[w].formats # <<>>
        THEN /\ w \in DOMAIN Surfaces
             /\ Surfaces[w].configuration.format = PreferredFormat(adapter_capabilities[w].formats)
        ELSE /\ pc = "panicked"
             /\ w \notin DOMAIN Surfaces
             /\ w \notin window_surfaces.configured_windows

\* After create_surfaces: the adapter reported a format that is not sRGB
\* first and Bgra8UnormSrgb last, and the surface has Bgra8UnormSrgb.
C17_Witness ==
    /\ pc = "prepare"
    /\ \E w \in DOMAIN adapter_capabilities :
        LET formats == adapter_capabilities[w].formats
        IN  /\ Len(formats) = MaxFormats
            /\ formats[1] = "Rgba8Unorm"
            /\ formats[Len(formats)] = "Bgra8UnormSrgb"
            /\ \A i \in 1..(Len(formats) - 1) : formats[i] \notin SrgbFormats
            /\ Surfaces[w].configuration.format = "Bgra8UnormSrgb"

\* The ExtractedWindow has the clamped size and the present mode of the
\* window as queried.
SizeAndPresentModeCurrent(extracted_window, queried) ==
    /\ extracted_window.physical_width = Max(queried.physical_width, 1)
    /\ extracted_window.physical_height = Max(queried.physical_height, 1)
    /\ extracted_window.present_mode = queried.present_mode

\* The ExtractedWindow has the alpha mode and the frame latency of the
\* window as queried.
AlphaAndLatencyCurrent(extracted_window, queried) ==
    /\ extracted_window.alpha_mode = queried.composite_alpha_mode
    /\ extracted_window.desired_maximum_frame_latency = queried.desired_maximum_frame_latency

\* C18 as stated: after extraction the ExtractedWindow of every live window
\* has the window's current clamped size, present mode, alpha mode and
\* desired maximum frame latency.
C18_SnapshotIsCurrent ==
    pc = "configure" =>
        \A w \in LiveWindows :
            /\ SizeAndPresentModeCurrent(Mirror[w], windows[w])
            /\ AlphaAndLatencyCurrent(Mirror[w], windows[w])

\* C18 amended: across every extraction, the ExtractedWindow of every live
\* window has the window's current clamped size and present mode; its alpha
\* mode and frame latency are the window's current ones when it is first
\* sighted and are left as stored when it was sighted before.
C18_SizeAndPresentModeAreCurrent ==
    [][pc = "extract" =>
        \A w \in DOMAIN windows' \cap DOMAIN extracted_windows'.windows :
            /\ SizeAndPresentModeCurrent(extracted_windows'.windows[w], windows'[w])
            /\ IF w \in DOMAIN Mirror
               THEN /\ extracted_windows'.windows[w].alpha_mode = Mirror[w].alpha_mode
                    /\ extracted_windows'.windows[w].desired_maximum_frame_latency
                          = Mirror[w].desired_maximum_frame_latency
               ELSE AlphaAndLatencyCurrent(extracted_windows'.windows[w], windows'[w])]_vars

\* After the extraction of a window sighted in an earlier frame whose size,
\* alpha mode and frame latency changed: the size is the new one, the alpha
\* mode and the frame latency are the old ones.
C18_Witness ==
    /\ pc = "configure"
    /\ \E w \in LiveWindows :
        /\ Mirror[w].size_changed
        /\ Mirror[w].physical_width = windows[w].physical_width
        /\ IsSome(Mirror[w].swap_chain_texture_format)
        /\ Mirror[w].alpha_mode = "Auto" /\ windows[w].composite_alpha_mode = "Opaque"
        /\ Mirror[w].desired_maximum_frame_latency = None
        /\ windows[w].desired_maximum_frame_latency = Some(1)

\* ------------------------------------------------- the Mirror in a frame
\* C19 as stated: create_surfaces, prepare_windows and the dispatch pass
\* leave every ExtractedWindow and the set of windows in the Mirror unchanged.
C19_MirrorChangedOnlyByExtraction ==
    [][pc # "extract" => extracted_windows' = extracted_windows]_vars

\* An ExtractedWindow without the fields an acquisition writes.
WithoutAcquisition(extracted_window) ==
    [extracted_window EXCEPT
        !.swap_chain_texture = None,
        !.swap_chain_texture_view = None,
        !.swap_chain_texture_format = None]

\* C19 amended: create_surfaces and the dispatch pass leave the Mirror
\* unchanged; prepare_windows leaves the set of windows and primary
\* unchanged and changes of an ExtractedWindow only swap_chain_texture,
\* swap_chain_texture_view and swap_chain_texture_format, and only for a
\* window that has a SurfaceData.
C19_PrepareWritesOnlyAcquisitionFields ==
    [][pc # "extract" =>
        IF pc = "prepare"
        THEN /\ DOMAIN extracted_windows'.windows = DOMAIN Mirror
             /\ extracted_windows'.primary = extracted_windows.primary
             /\ \A w \in DOMAIN Mirror :
                   /\ WithoutAcquisition(extracted_windows'.windows[w])
                         = WithoutAcquisition(Mirror[w])
                   /\ w \notin DOMAIN Surfaces => extracted_windows'.windows[w] = Mirror[w]
        ELSE extracted_windows' = extracted_windows]_vars

\* After prepare_windows: one window was acquired at the first attempt and
\* holds the frame and the format, the other, whose retry failed, holds nothing.
C19_Witness ==
    /\ pc = "dispatch"
    /\ \E w, v \in DOMAIN Mirror :
        /\ Cardinality(Attempts(w)) = 1
        /\ w \in acquired
        /\ HoldsFrameOf(w)
        /\ Mirror[w].swap_chain_texture_format = Some(Surfaces[w].configuration.format)
        /\ RetryFailed(v)
        /\ Mirror[v].swap_chain_texture = None
        /\ Mirror[v].swap_chain_texture_format = None

\* One SurfaceData across a step: the surface, the format, the usage, the
\* alpha mode, the frame latency and the view formats stay; the entry
\* changes only in create_surfaces for a window with a flag set, and then to
\* the width, height and present mode of the window.
OnlyReconfigured(old, new, stage, window) ==
    /\ new.surface = old.surface
    /\ new.configuration.format = old.configuration.format
    /\ new.configuration.usage = old.configuration.usage
    /\ new.configuration.alpha_mode = old.configuration.alpha_mode
    /\ new.configuration.desired_maximum_frame_latency
          = old.configuration.desired_maximum_frame_latency
    /\ new.configuration.view_formats = old.configuration.view_formats
    /\ new # old =>
          /\ stage = "configure"
          /\ window.size_changed \/ window.present_mode_changed
          /\ CarriesWindow(new.configuration, window)

\* C20: for as long as a SurfaceData exists, every step leaves its surface,
\* format, usage, alpha mode, frame latency and view formats as they were
\* set at creation; it changes only when create_surfaces reconfigures it for
\* a resize or a present-mode change, and then only in width, height and
\* present mode.
C20_ReconfigureKeepsTheRest ==
    [][\A w \in DOMAIN Surfaces \cap DOMAIN window_surfaces'.surfaces :
          OnlyReconfigured(Surfaces[w], window_surfaces'.surfaces[w], pc, Mirror[w])]_vars

\* After create_surfaces reconfigured, for a resize, a surface of an earlier
\* frame whose format is not sRGB: it keeps the format, the sRGB view format
\* and the frame latency 1 of its creation, while the window now asks for
\* the default latency and another alpha mode.
C20_Witness ==
    /\ pc = "prepare"
    /\ create_ran
    /\ \E w \in DOMAIN Surfaces \cap LiveWindows :
        /\ Mirror[w].size_changed
        /\ CallsOf(surface_calls[w], "create_surface") = {}
        /\ CallsOf(surface_calls[w], "configure_surface") # {}
        /\ Surfaces[w].configuration.width = 2
        /\ Surfaces[w].configuration.format = "Rgba8Unorm"
        /\ Surfaces[w].configuration.view_formats = <<"Rgba8UnormSrgb">>
        /\ Surfaces[w].configuration.desired_maximum_frame_latency = 1
        /\ windows[w].desired_maximum_frame_latency = None
        /\ Surfaces[w].configuration.alpha_mode = "wgpu::CompositeAlphaMode::Auto"
        /\ windows[w].composite_alpha_mode = "Opaque"

\* ------------------------------------------- every window is prepared
\* C21: when prepare_windows starts, every window of the Mirror has a
\* SurfaceData and is in the ConfiguredSet; and when it has run without
\* terminating the process, an acquisition attempt was made for every window
\* of the Mirror, so none was skipped for want of a SurfaceData.
C21_EveryWindowHasASurface ==
    /\ pc = "prepare" =>
          /\ DOMAIN Mirror \subseteq DOMAIN Surfaces
          /\ DOMAIN Mirror \subseteq window_surfaces.configured_windows
    /\ pc = "dispatch" => \A w \in DOMAIN Mirror : Attempts(w) # {}

\* After prepare_windows: a window first sighted this frame, whose surface
\* was created this frame, and a window of an earlier frame, were both attempted.
C21_Witness ==
    /\ pc = "dispatch"
    /\ \E w, v \in LiveWindows :
        /\ CallsOf(surface_calls[w], "create_surface") = {1}
        /\ Attempts(w) # {}
        /\ Mirror[w].swap_chain_texture = Some([format |-> Surfaces[w].configuration.format])
        /\ CallsOf(surface_calls[v], "create_surface") = {}
        /\ Attempts(v) # {}

\* ------------------------------------------------------ the primary window
\* C22 as stated: after every extraction, when ExtractedWindows.primary is
\* set it names a window that has an ExtractedWindow in the Mirror.
C22_PrimaryIsInTheMirror ==
    pc = "configure" => \A w \in extracted_windows.primary : w \in DOMAIN Mirror

====
